---- MODULE Spec2Model ----
(***************************************************************************)
(* ListViewDataSource (Libraries/.../ListViewDataSource.js): an immutable  *)
(* snapshot of sectioned list data.  cloneWithRows and                     *)
(* cloneWithRowsAndSections build a new data source from the receiver and  *)
(* a new blob and compute, per row and per section header, a dirty bit.    *)
(*                                                                         *)
(* JavaScript values are represented as follows.                           *)
(*   - an object used as a dictionary is a TLA+ function whose DOMAIN is   *)
(*     the set of its own keys;                                            *)
(*   - an array is a sequence (1-based here, 0-based in the API: the       *)
(*     accessors below take the 0-based index of the code);                *)
(*   - a value that may be null or undefined is a set with at most one     *)
(*     element: {} is null/undefined, {v} is v.                            *)
(***************************************************************************)
EXTENDS Integers, Sequences, FiniteSets, TLC

VARIABLES
    params,   \* the ParamType record given to `new ListViewDataSource(params)`
    live,     \* TRUE when the constructor returned an object
    ds,       \* the data source object the caller holds
    built,    \* the call that built ds: the operation, the comparator invocations
              \* its diff made and the warnings it emitted
    call,     \* the last call: the exception it threw and where, and whether the
              \* caller went on with the receiver or with the returned object
    clones,   \* the number of clone calls made
    lineage,  \* the identity lists of the data sources ds descends from, the
              \* constructed one first and the one ds was cloned from last
    _reactSubviews, \* RCTView: the ivar of that name, nil or the array of the
              \* views React has put into the view
    subviews, \* RCTView: self.subviews, the views mounted in the view
    sent,     \* RCTView: the last message sent to the view and the views it mounted
    process,  \* the scaffolding command: argv, the working directory, where the
              \* script is and how the process ended
    disk,     \* the scaffolding command: the directories, the installed cli
              \* modules and the package.json it wrote
    events    \* the scaffolding command: the calls the script made, in order

\* the variables of the data source, of the view and of the scaffolding command
dataSourceVars == <<params, live, ds, built, call, clones, lineage>>

viewVars == <<_reactSubviews, subviews, sent>>

commandVars == <<process, disk, events>>

vars == <<params, live, ds, built, call, clones, lineage,
          _reactSubviews, subviews, sent, process, disk, events>>

----------------------------------------------------------------------------
(* Bounds of the model. *)

\* most clone calls a caller makes
MaxClones == 2
\* longest sectionIdentities array a caller passes
MaxSections == 2
\* most row identities a caller passes in one call, over all sections
MaxRows == 2
\* the caller's data goes through the versions 0..MaxData
MaxData == 1

SectionIDs == {"s1", "s2"}
RowIDs == {"a", "b"}

\* Object.keys enumerates string keys in insertion order; the blobs of the
\* model are built in this order.
SectionKeyOrder == <<"s1", "s2">>
RowKeyOrder == <<"a", "b">>

Null == {}
Undefined == {}
Some(v) == {v}
Get(o) == CHOOSE v \in o : TRUE

SeqsUpTo(S, n) == UNION {[1 .. k -> S] : k \in 0 .. n}
Range(s) == {s[i] : i \in DOMAIN s}

RECURSIVE SumLens(_)
SumLens(ss) == IF ss = <<>> THEN 0 ELSE Len(Head(ss)) + SumLens(Tail(ss))

----------------------------------------------------------------------------
(* Caller-supplied functions.  A differType function is one of three pure  *)
(* comparators; "absent" is a parameter the caller left out.               *)

\* rowHasChanged / sectionHeaderHasChanged as the caller may write them
Differs == {"never", "always", "differ"}

\* the arrow function () => false that cloneWithRows installs
DefaultNever == "defaultNever"

IsFunction(f) == f \in Differs \cup {DefaultNever}

ApplyDiffer(f, data1, data2) ==
    CASE f = "never" -> FALSE
      [] f = DefaultNever -> FALSE
      [] f = "always" -> TRUE
      [] f = "differ" -> data1 # data2

\* defaultGetRowData: dataBlob[sectionID][rowID]
defaultGetRowData(dataBlob, sectionID, rowID) ==
    IF dataBlob = Null THEN [threw |-> TRUE, val |-> Undefined]
    ELSE LET blob == Get(dataBlob) IN
         IF sectionID \notin DOMAIN blob THEN [threw |-> TRUE, val |-> Undefined]
         ELSE IF rowID \in DOMAIN blob[sectionID]
              THEN [threw |-> FALSE, val |-> Some(blob[sectionID][rowID])]
              ELSE [threw |-> FALSE, val |-> Undefined]

\* defaultGetSectionHeaderData: dataBlob[sectionID]
defaultGetSectionHeaderData(dataBlob, sectionID) ==
    IF dataBlob = Null THEN [threw |-> TRUE, val |-> Undefined]
    ELSE LET blob == Get(dataBlob) IN
         IF sectionID \in DOMAIN blob
         THEN [threw |-> FALSE, val |-> Some(blob[sectionID])]
         ELSE [threw |-> FALSE, val |-> Undefined]

----------------------------------------------------------------------------
(* The object. *)

\* new ListViewDataSource(params).  The invariant() on rowHasChanged throws
\* before any field is assigned.  `||` substitutes the default extractors.
\* p.given is FALSE when the caller passed no params object.
\* the fields the constructor assigns (lines 197-211)
constructed(p) ==
    [_rowHasChanged |-> p.rowHasChanged,
     _getRowData |-> IF p.getRowData = "absent"
                     THEN "defaultGetRowData" ELSE p.getRowData,
     _sectionHeaderHasChanged |-> p.sectionHeaderHasChanged,
     _getSectionHeaderData |-> IF p.getSectionHeaderData = "absent"
                               THEN "defaultGetSectionHeaderData"
                               ELSE p.getSectionHeaderData,
     _dataBlob |-> Null,
     _dirtyRows |-> <<>>,
     _dirtySections |-> <<>>,
     _cachedRowCount |-> 0,
     rowIdentities |-> <<>>,
     sectionIdentities |-> <<>>]

\* the constructor without its invariant()
constructor_Unchecked(p) == [threw |-> "none", obj |-> constructed(p)]

constructor(p) ==
    IF ~(p.given /\ IsFunction(p.rowHasChanged))
    THEN [threw |-> "Invariant Violation", obj |-> <<>>]
    ELSE [threw |-> "none", obj |-> constructed(p)]

\* this._getRowData(blob, sectionID, rowID): the extractor the object holds
CallGetRowData(self, dataBlob, sectionID, rowID) ==
    defaultGetRowData(dataBlob, sectionID, rowID)

\* this._getSectionHeaderData(blob, sectionID)
CallGetSectionHeaderData(self, dataBlob, sectionID) ==
    defaultGetSectionHeaderData(dataBlob, sectionID)

RECURSIVE countRowsFrom(_, _, _)
countRowsFrom(allRowIDs, sectionIdx, totalRows) ==
    IF sectionIdx > Len(allRowIDs) THEN totalRows
    ELSE countRowsFrom(allRowIDs, sectionIdx + 1,
                       totalRows + Len(allRowIDs[sectionIdx]))

countRows(allRowIDs) == countRowsFrom(allRowIDs, 1, 0)

\* keyedDictionaryFromArray(arr): the dictionary {key: true} of the elements,
\* and whether the duplicate warning was emitted.  The dictionary is
\* represented by its key set.
RECURSIVE keyedDictionaryFrom(_, _, _)
keyedDictionaryFrom(arr, ii, acc) ==
    IF ii > Len(arr) THEN acc
    ELSE keyedDictionaryFrom(arr, ii + 1,
            [keys |-> acc.keys \cup {arr[ii]},
             warned |-> acc.warned \/ arr[ii] \in acc.keys])

\* keyedDictionaryFromArray with a loop that stops one element early
keyedDictionaryFromArray_SkipsLast(arr) ==
    keyedDictionaryFrom(SubSeq(arr, 1, Len(arr) - 1), 1,
                        [keys |-> {}, warned |-> FALSE])

keyedDictionaryFromArray(arr) ==
    keyedDictionaryFrom(arr, 1, [keys |-> {}, warned |-> FALSE])

WarnDupValue == "Value appears more than once in array"
WarnDupSection == "SectionID appears more than once"

\* prevRowsHashFrom keeping the first dictionary stored under a section
\* identity instead of the last
RECURSIVE prevRowsHashFrom_FirstWins(_, _, _, _)
prevRowsHashFrom_FirstWins(prevSectionIDs, prevRowIDs, ii, acc) ==
    IF ii > Len(prevRowIDs) THEN acc
    ELSE LET sectionID == IF ii <= Len(prevSectionIDs)
                          THEN prevSectionIDs[ii] ELSE "undefined"
             dict == keyedDictionaryFromArray(prevRowIDs[ii])
         IN prevRowsHashFrom_FirstWins(prevSectionIDs, prevRowIDs, ii + 1,
               [acc EXCEPT !.hash = acc.hash @@ (sectionID :> dict.keys)])

\* lines 423-431: prevRowsHash[prevSectionIDs[ii]] = keyedDictionaryFromArray(
\* prevRowIDs[ii]) for ii < prevRowIDs.length.  Reading prevSectionIDs past its
\* end gives undefined, which as a property key is the string "undefined".
RECURSIVE prevRowsHashFrom(_, _, _, _)
prevRowsHashFrom(prevSectionIDs, prevRowIDs, ii, acc) ==
    IF ii > Len(prevRowIDs) THEN acc
    ELSE LET sectionID == IF ii <= Len(prevSectionIDs)
                          THEN prevSectionIDs[ii] ELSE "undefined"
             dict == keyedDictionaryFromArray(prevRowIDs[ii])
             warn == (IF sectionID \in DOMAIN acc.hash
                      THEN {WarnDupSection} ELSE {})
                     \cup (IF dict.warned THEN {WarnDupValue} ELSE {})
         IN prevRowsHashFrom(prevSectionIDs, prevRowIDs, ii + 1,
               [hash |-> (sectionID :> dict.keys) @@ acc.hash,
                warnings |-> acc.warnings \cup warn])

----------------------------------------------------------------------------
(* _calculateDirtyArrays.  The loops are folded over an accumulator        *)
(*   [dirtyRows, dirtySections : this._dirtyRows / this._dirtySections,    *)
(*    threw    : "none" or the exception that ended the diff,              *)
(*    at       : where it was thrown (NoWhere when nothing was thrown),    *)
(*    rowCalls : the <<sIndex, rIndex>> for which rowHasChanged was called,*)
(*    nRowCalls: the number of calls of rowHasChanged,                     *)
(*    hdrCalls : the sIndex for which sectionHeaderHasChanged was called,  *)
(*    warnings : the warnings emitted].                                    *)
(* Indices in the accumulator are the 0-based indices of the code.         *)

TypeError == "TypeError"

\* the place of an exception: the indices of the loops and the identities
\* being processed; rIndex is -1 outside the row loop
Where(sIndex, rIndex, sectionID, rowID) ==
    [sIndex |-> sIndex, rIndex |-> rIndex, sectionID |-> sectionID, rowID |-> rowID]

NoWhere == Where(-1, -1, "", "")

\* !prevSectionsHash[sectionID]  (lines 441 and 456)
sectionIsNew(prevSectionsHash, sectionID) == sectionID \notin prevSectionsHash

\* rowIsNew without the membership test
rowIsNew_Forgotten(prevRowsHash, sectionID, rowID) == FALSE

\* !prevRowsHash[sectionID][rowID]  (line 457)
rowIsNew(prevRowsHash, sectionID, rowID) == rowID \notin prevRowsHash[sectionID]

\* headerIsCompared without the test of dirty
headerIsCompared_Always(dirty, sectionHeaderHasChanged) ==
    IsFunction(sectionHeaderHasChanged)

\* if (!dirty && sectionHeaderHasChanged)  (line 443)
headerIsCompared(dirty, sectionHeaderHasChanged) ==
    ~dirty /\ IsFunction(sectionHeaderHasChanged)

\* pushDirtyRow keeping one bit per row identity, that of its last occurrence
pushDirtyRow_LastOnly(acc, self, sIndex, rIndex, dirty) ==
    IF \E k \in DOMAIN self.rowIdentities[sIndex] :
          k > rIndex /\ self.rowIdentities[sIndex][k] = self.rowIdentities[sIndex][rIndex]
    THEN acc
    ELSE [acc EXCEPT !.dirtyRows[sIndex] = Append(@, dirty)]

\* this._dirtyRows[sIndex].push(!!dirty)  (line 462); sIndex is 1-based here
pushDirtyRow(acc, self, sIndex, rIndex, dirty) ==
    [acc EXCEPT !.dirtyRows[sIndex] = Append(@, dirty)]

\* lines 452-463, one iteration per row of section sIndex (1-based here)
RECURSIVE dirtyRowsLoop(_, _, _, _, _, _, _)
dirtyRowsLoop(self, prevDataBlob, prevSectionsHash, prevRowsHash, sIndex, rIndex, acc) ==
    IF acc.threw # "none" \/ rIndex > Len(self.rowIdentities[sIndex]) THEN acc
    ELSE
    LET sectionID == self.sectionIdentities[sIndex]
        rowID == self.rowIdentities[sIndex][rIndex]
        push(dirty) == pushDirtyRow(acc, self, sIndex, rIndex, dirty)
        fail == [acc EXCEPT !.threw = TypeError,
                            !.at = Where(sIndex - 1, rIndex - 1, sectionID, rowID)]
    IN
    IF sectionIsNew(prevSectionsHash, sectionID)
    THEN dirtyRowsLoop(self, prevDataBlob, prevSectionsHash, prevRowsHash,
                       sIndex, rIndex + 1, push(TRUE))
    ELSE IF sectionID \notin DOMAIN prevRowsHash
    THEN fail    \* prevRowsHash[sectionID] is undefined
    ELSE IF rowIsNew(prevRowsHash, sectionID, rowID)
    THEN dirtyRowsLoop(self, prevDataBlob, prevSectionsHash, prevRowsHash,
                       sIndex, rIndex + 1, push(TRUE))
    ELSE
    LET prevData == CallGetRowData(self, prevDataBlob, sectionID, rowID)
        nextData == CallGetRowData(self, self._dataBlob, sectionID, rowID)
    IN
    IF prevData.threw \/ nextData.threw THEN fail
    ELSE
    LET dirty == ApplyDiffer(self._rowHasChanged, prevData.val, nextData.val)
        called == [push(dirty) EXCEPT !.rowCalls = @ \cup {<<sIndex - 1, rIndex - 1>>},
                                     !.nRowCalls = @ + 1]
    IN dirtyRowsLoop(self, prevDataBlob, prevSectionsHash, prevRowsHash,
                     sIndex, rIndex + 1, called)

\* lines 438-464, one iteration per section
RECURSIVE dirtySectionsLoop(_, _, _, _, _, _)
dirtySectionsLoop(self, prevDataBlob, prevSectionsHash, prevRowsHash, sIndex, acc) ==
    IF acc.threw # "none" \/ sIndex > Len(self.sectionIdentities) THEN acc
    ELSE
    LET sectionID == self.sectionIdentities[sIndex]
        fail == [acc EXCEPT !.threw = TypeError,
                            !.at = Where(sIndex - 1, -1, sectionID, "")]
        isNew == sectionIsNew(prevSectionsHash, sectionID)
        compare == headerIsCompared(isNew, self._sectionHeaderHasChanged)
        prevData == CallGetSectionHeaderData(self, prevDataBlob, sectionID)
        nextData == CallGetSectionHeaderData(self, self._dataBlob, sectionID)
    IN
    IF compare /\ (prevData.threw \/ nextData.threw) THEN fail
    ELSE
    LET dirty == IF compare
                 THEN ApplyDiffer(self._sectionHeaderHasChanged,
                                  prevData.val, nextData.val)
                 ELSE isNew
        pushed == [acc EXCEPT !.dirtySections = Append(@, dirty),
                              !.dirtyRows = Append(@, <<>>),
                              !.hdrCalls = IF compare THEN @ \cup {sIndex - 1} ELSE @]
    IN
    IF sIndex > Len(self.rowIdentities)
    THEN fail    \* this.rowIdentities[sIndex] is undefined
    ELSE dirtySectionsLoop(self, prevDataBlob, prevSectionsHash, prevRowsHash,
            sIndex + 1,
            dirtyRowsLoop(self, prevDataBlob, prevSectionsHash, prevRowsHash,
                          sIndex, 1, pushed))

\* self._calculateDirtyArrays(prevDataBlob, prevSectionIDs, prevRowIDs)
_calculateDirtyArrays(self, prevDataBlob, prevSectionIDs, prevRowIDs) ==
    LET sectionsDict == keyedDictionaryFromArray(prevSectionIDs)
        rowsHash == prevRowsHashFrom(prevSectionIDs, prevRowIDs, 1,
                       [hash |-> <<>>, warnings |-> {}])
        warnings == rowsHash.warnings
                    \cup (IF sectionsDict.warned THEN {WarnDupValue} ELSE {})
    IN dirtySectionsLoop(self, prevDataBlob, sectionsDict.keys, rowsHash.hash, 1,
          [dirtyRows |-> <<>>, dirtySections |-> <<>>, threw |-> "none",
           at |-> NoWhere, rowCalls |-> {}, nRowCalls |-> 0, hdrCalls |-> {},
           warnings |-> warnings])

\* diffAgainstReceiver with the new source's own data as the previous side
diffAgainstReceiver_Self(self, newSource) ==
    _calculateDirtyArrays(newSource, newSource._dataBlob,
                          newSource.sectionIdentities, newSource.rowIdentities)

\* diffAgainstReceiver appending the section bits to those of the receiver
diffAgainstReceiver_Appending(self, newSource) ==
    LET diff == _calculateDirtyArrays(newSource, self._dataBlob,
                                      self.sectionIdentities, self.rowIdentities)
    IN [diff EXCEPT !.dirtySections = self._dirtySections \o @]

\* newSource._calculateDirtyArrays(this._dataBlob, this.sectionIdentities,
\* this.rowIdentities)  (lines 281-285)
diffAgainstReceiver(self, newSource) ==
    _calculateDirtyArrays(newSource, self._dataBlob,
                          self.sectionIdentities, self.rowIdentities)

----------------------------------------------------------------------------
(* The clone operations. *)

\* Object.keys(obj), in the key order of the blobs of the model
ObjectKeys(obj, order) == SelectSeq(order, LAMBDA k : k \in DOMAIN obj)

NoLog == [threw |-> "none", at |-> NoWhere, rowCalls |-> {}, nRowCalls |-> 0,
          hdrCalls |-> {},
          warnings |-> {}]

\* self.cloneWithRowsAndSections(dataBlob, sectionIdentities, rowIdentities):
\* [log: what the call did, newSource: the object it returns when log.threw is
\* "none"].  sectionIdentities and rowIdentities are Null when not passed.
cloneWithRowsAndSections(self, dataBlob, sectionIdentities, rowIdentities) ==
    IF ~IsFunction(self._sectionHeaderHasChanged)
    THEN [log |-> [NoLog EXCEPT !.threw = "Invariant Violation"], newSource |-> self]
    ELSE
    LET made == constructor([given |-> TRUE,
                             getRowData |-> self._getRowData,
                             getSectionHeaderData |-> self._getSectionHeaderData,
                             rowHasChanged |-> self._rowHasChanged,
                             sectionHeaderHasChanged |-> self._sectionHeaderHasChanged])
        sectionIDs == IF sectionIdentities # Null THEN Get(sectionIdentities)
                      ELSE ObjectKeys(dataBlob, SectionKeyOrder)
        \* Object.keys(dataBlob[sectionID]) throws on undefined
        keysThrow == rowIdentities = Null
                     /\ \E i \in DOMAIN sectionIDs : sectionIDs[i] \notin DOMAIN dataBlob
        rowIDs == IF rowIdentities # Null THEN Get(rowIdentities)
                  ELSE [i \in DOMAIN sectionIDs |->
                           IF sectionIDs[i] \in DOMAIN dataBlob
                           THEN ObjectKeys(dataBlob[sectionIDs[i]], RowKeyOrder)
                           ELSE <<>>]
        newSource == [made.obj EXCEPT !._dataBlob = Some(dataBlob),
                                      !.sectionIdentities = sectionIDs,
                                      !.rowIdentities = rowIDs,
                                      !._cachedRowCount = countRows(rowIDs)]
        diff == diffAgainstReceiver(self, newSource)
    IN
    IF made.threw # "none"
    THEN [log |-> [NoLog EXCEPT !.threw = made.threw], newSource |-> self]
    ELSE IF keysThrow
    THEN [log |-> [NoLog EXCEPT !.threw = TypeError], newSource |-> self]
    ELSE [log |-> [threw |-> diff.threw, at |-> diff.at, rowCalls |-> diff.rowCalls,
                   nRowCalls |-> diff.nRowCalls,
                   hdrCalls |-> diff.hdrCalls, warnings |-> diff.warnings],
          newSource |-> [newSource EXCEPT !._dirtyRows = diff.dirtyRows,
                                          !._dirtySections = diff.dirtySections]]

\* the receiver after the first statements of cloneWithRows (lines 224-226)
cloneWithRowsReceiver(self) ==
    IF ~IsFunction(self._sectionHeaderHasChanged)
    THEN [self EXCEPT !._sectionHeaderHasChanged = DefaultNever]
    ELSE self

\* self.cloneWithRows(dataBlob, rowIdentities)
cloneWithRows(self, dataBlob, rowIdentities) ==
    LET rowIds == IF rowIdentities # Null THEN Some(<<Get(rowIdentities)>>) ELSE Null
    IN cloneWithRowsAndSections(cloneWithRowsReceiver(self),
                                [k \in {"s1"} |-> dataBlob], Some(<<"s1">>), rowIds)

----------------------------------------------------------------------------
(* Accessors.  Indices are the 0-based indices of the code.  An accessor   *)
(* gives [threw, val]; an array read outside the array is undefined.       *)

JSNull == "null"
JSUndefined == "undefined"

getRowCount(self) == self._cachedRowCount

\* this._dirtyRows[sectionIndex][rowIndex]; val is Undefined or Some(bit);
\* warned: the warning of lines 302-303 was emitted
rowShouldUpdate(self, sectionIndex, rowIndex) ==
    IF sectionIndex + 1 \notin DOMAIN self._dirtyRows
    THEN [threw |-> TRUE, val |-> Undefined, warned |-> FALSE]
    ELSE IF rowIndex + 1 \in DOMAIN self._dirtyRows[sectionIndex + 1]
         THEN [threw |-> FALSE,
               val |-> Some(self._dirtyRows[sectionIndex + 1][rowIndex + 1]),
               warned |-> FALSE]
         ELSE [threw |-> FALSE, val |-> Undefined, warned |-> TRUE]

\* this._dirtySections[sectionIndex]
sectionHeaderShouldUpdate(self, sectionIndex) ==
    IF sectionIndex + 1 \in DOMAIN self._dirtySections
    THEN [threw |-> FALSE, val |-> Some(self._dirtySections[sectionIndex + 1]),
          warned |-> FALSE]
    ELSE [threw |-> FALSE, val |-> Undefined, warned |-> TRUE]

\* this.getRowData(sectionIndex, rowIndex) (lines 313-321).  threw: the
\* accessor's own statements threw (line 315); warned: the warning of lines
\* 316-319; called: the extractor was called, with the identities ids (a
\* pair of Undefined or Some(identity)); got: what the extractor did.
getRowData(self, sectionIndex, rowIndex) ==
    LET sectionID == IF sectionIndex + 1 \in DOMAIN self.sectionIdentities
                     THEN Some(self.sectionIdentities[sectionIndex + 1])
                     ELSE Undefined
    IN
    IF sectionIndex + 1 \notin DOMAIN self.rowIdentities
    THEN [threw |-> TRUE, warned |-> FALSE, called |-> FALSE,
          ids |-> <<sectionID, Undefined>>,
          got |-> [threw |-> FALSE, val |-> Undefined]]
    ELSE
    LET rowID == IF rowIndex + 1 \in DOMAIN self.rowIdentities[sectionIndex + 1]
                 THEN Some(self.rowIdentities[sectionIndex + 1][rowIndex + 1])
                 ELSE Undefined
        \* an undefined identity is the property key "undefined"
        key(id) == IF id = Undefined THEN "undefined" ELSE Get(id)
    IN [threw |-> FALSE,
        warned |-> sectionID = Undefined \/ rowID = Undefined,
        called |-> TRUE,
        ids |-> <<sectionID, rowID>>,
        got |-> CallGetRowData(self, self._dataBlob, key(sectionID), key(rowID))]

\* this.getSectionHeaderData(sectionIndex) (lines 387-395); isNull: the
\* early return of null; val: else what the extractor returned
getSectionHeaderData(self, sectionIndex) ==
    IF self._getSectionHeaderData = "absent"
    THEN [threw |-> FALSE, warned |-> FALSE, called |-> FALSE, isNull |-> TRUE,
          val |-> Undefined]
    ELSE
    LET sectionID == IF sectionIndex + 1 \in DOMAIN self.sectionIdentities
                     THEN self.sectionIdentities[sectionIndex + 1]
                     ELSE "undefined"
        got == CallGetSectionHeaderData(self, self._dataBlob, sectionID)
    IN [threw |-> got.threw,
        warned |-> sectionIndex + 1 \notin DOMAIN self.sectionIdentities,
        called |-> TRUE, isNull |-> FALSE, val |-> got.val]

\* lines 331-338 with the loop variable at ii (1-based here)
RECURSIVE getRowIDForFlatIndexFrom(_, _, _)
getRowIDForFlatIndexFrom(self, ii, accessIndex) ==
    IF ii > Len(self.sectionIdentities) THEN [threw |-> FALSE, val |-> JSNull]
    ELSE IF ii \notin DOMAIN self.rowIdentities
    THEN [threw |-> TRUE, val |-> JSUndefined]
    ELSE IF accessIndex >= Len(self.rowIdentities[ii])
    THEN getRowIDForFlatIndexFrom(self, ii + 1,
                                  accessIndex - Len(self.rowIdentities[ii]))
    ELSE [threw |-> FALSE,
          val |-> IF accessIndex + 1 \in DOMAIN self.rowIdentities[ii]
                  THEN self.rowIdentities[ii][accessIndex + 1]
                  ELSE JSUndefined]

getRowIDForFlatIndex(self, index) == getRowIDForFlatIndexFrom(self, 1, index)

\* lines 349-356
RECURSIVE getSectionIDForFlatIndexFrom(_, _, _)
getSectionIDForFlatIndexFrom(self, ii, accessIndex) ==
    IF ii > Len(self.sectionIdentities) THEN [threw |-> FALSE, val |-> JSNull]
    ELSE IF ii \notin DOMAIN self.rowIdentities
    THEN [threw |-> TRUE, val |-> JSUndefined]
    ELSE IF accessIndex >= Len(self.rowIdentities[ii])
    THEN getSectionIDForFlatIndexFrom(self, ii + 1,
                                      accessIndex - Len(self.rowIdentities[ii]))
    ELSE [threw |-> FALSE, val |-> self.sectionIdentities[ii]]

getSectionIDForFlatIndex(self, index) == getSectionIDForFlatIndexFrom(self, 1, index)

\* lines 363-367
RECURSIVE getSectionLengthsFrom(_, _, _)
getSectionLengthsFrom(self, ii, results) ==
    IF ii > Len(self.sectionIdentities) THEN [threw |-> FALSE, val |-> results]
    ELSE IF ii \notin DOMAIN self.rowIdentities
    THEN [threw |-> TRUE, val |-> results]
    ELSE getSectionLengthsFrom(self, ii + 1,
                               Append(results, Len(self.rowIdentities[ii])))

getSectionLengths(self) == getSectionLengthsFrom(self, 1, <<>>)

----------------------------------------------------------------------------
(* Inputs. *)

\* the params a caller constructs the first data source with
NotAFunction == "notAFunction"

\* `new ListViewDataSource()`: no params object
NoParams ==
    [given |-> FALSE, rowHasChanged |-> "absent", getRowData |-> "absent",
     sectionHeaderHasChanged |-> "absent", getSectionHeaderData |-> "absent"]

ParamSets ==
    {[given |-> TRUE, rowHasChanged |-> c[1], getRowData |-> "absent",
      sectionHeaderHasChanged |-> c[2], getSectionHeaderData |-> "absent"] :
        c \in {<<"differ", "differ">>, <<"always", "never">>, <<"never", "never">>,
               <<"differ", "absent">>,
               <<"absent", "differ">>, <<"absent", "absent">>,
               <<NotAFunction, "differ">>}}
    \cup {NoParams}

\* The data of row rowID of section sectionID in version v of the caller's
\* data: from one version to the next the data of the rows "a" change and the
\* data of the other rows stay.
RowData(sectionID, rowID, v) == <<sectionID, rowID, IF rowID = "a" THEN v ELSE 0>>

Versions == 0 .. MaxData

\* the row collection {rowID: rowData} of a section with the rows R
RowsOf(sectionID, R, v) == [r \in R |-> RowData(sectionID, r, v)]

\* a blob {sectionID: {rowID: rowData}}: shape gives the rows of each section
\* it has
BlobOf(shape, v) == [s \in DOMAIN shape |-> RowsOf(s, shape[s], v)]

Shapes == UNION {[S -> SUBSET RowIDs] : S \in SUBSET SectionIDs}

Blobs == {BlobOf(shape, v) : shape \in Shapes, v \in Versions}

\* the blobs passed with explicit identity arrays: one with every section
\* and row, and one that lacks section "s2" and row "a"
ExplicitShapes == {[s \in SectionIDs |-> RowIDs], [s \in {"s1"} |-> {"b"}]}

ExplicitBlobs == {BlobOf(shape, v) : shape \in ExplicitShapes, v \in Versions}

\* a rowIdentities argument of cloneWithRows
RowIdLists == SeqsUpTo(RowIDs, MaxRows)

\* a sectionIdentities argument
SectionIdLists == SeqsUpTo(SectionIDs, MaxSections)

\* a rowIdentities argument of cloneWithRowsAndSections
RowIdListLists ==
    {rr \in SeqsUpTo(RowIdLists, MaxSections) : SumLens(rr) <= MaxRows}

Opt(S) == {Null} \cup {Some(x) : x \in S}

\* cloneWithRows(dataBlob) with any row collection, and
\* cloneWithRows(dataBlob, rowIdentities) with a collection of all the rows
CloneWithRowsArgs ==
    [dataBlob : {RowsOf("s1", R, v) : R \in SUBSET RowIDs, v \in Versions},
     rowIdentities : {Null}]
    \cup [dataBlob : {RowsOf("s1", RowIDs, v) : v \in Versions},
          rowIdentities : Opt(RowIdLists)]

\* cloneWithRowsAndSections(dataBlob) with any blob, and
\* cloneWithRowsAndSections(dataBlob, sectionIdentities, rowIdentities) with
\* one of ExplicitBlobs; the two arrays need not be equally long
CloneArgs ==
    [dataBlob : Blobs, sectionIdentities : {Null}, rowIdentities : {Null}]
    \cup {a \in [dataBlob : ExplicitBlobs,
                 sectionIdentities : Opt(SectionIdLists),
                 rowIdentities : Opt(RowIdListLists)] :
            /\ a.sectionIdentities # Null
            /\ a.rowIdentities # Null
                  => Len(Get(a.rowIdentities)) - Len(Get(a.sectionIdentities))
                        \in {-1, 0, 1}}

----------------------------------------------------------------------------
(* The state machine. *)

NoCall == [op |-> "constructor", threw |-> "none", at |-> NoWhere, kept |-> "result"]

\* no message has been sent to the view
NoMessage == [op |-> "init", view |-> 0, flag |-> FALSE, remounted |-> {}]

\* an RCTView after initWithFrame: the ivar is nil and it has no subviews
InitRCTView ==
    /\ _reactSubviews = {}
    /\ subviews = <<>>
    /\ sent = NoMessage

\* the scaffolding command is not running
NoProcess ==
    /\ process = [argv |-> <<>>, cwd |-> <<>>, pc |-> "none", exit |-> {},
                  root |-> <<>>, projectName |-> ""]
    /\ disk = [dirs |-> {<<>>}, installed |-> {}, packageJson |-> {}]
    /\ events = <<>>

\* `new ListViewDataSource(p)` for a p of P
InitDataSource(P) ==
    /\ params \in P
    /\ LET made == constructor(params) IN
         /\ live = (made.threw = "none")
         /\ ds = made.obj
         /\ built = [op |-> "constructor", rowCalls |-> {}, nRowCalls |-> 0,
                     hdrCalls |-> {},
                     warnings |-> {}]
         /\ call = [NoCall EXCEPT !.threw = made.threw]
    /\ clones = 0
    /\ lineage = <<>>

Init == InitDataSource(ParamSets) /\ InitRCTView /\ NoProcess

\* the identity lists of a data source
IdentitiesOf(self) ==
    [sectionIdentities |-> self.sectionIdentities, rowIdentities |-> self.rowIdentities]

\* what the caller goes on with after a call that returned: the object the
\* call returned, or the receiver
Keeps == {"result", "this"}

\* The end of a call of op on ds: `self` is the receiver as the call leaves
\* it and res what the call did.  An exception ends the program.  Otherwise
\* the caller goes on with the object the call returned (keep = "result") or
\* with the receiver (keep = "this").
Finish(op, self, res) ==
    /\ clones' = clones + 1
    /\ UNCHANGED <<viewVars, commandVars>>
    /\ IF res.log.threw # "none"
       THEN /\ ds' = self
            /\ call' = [op |-> op, threw |-> res.log.threw, at |-> res.log.at,
                        kept |-> "this"]
            /\ UNCHANGED <<params, live, built, lineage>>
       ELSE \E keep \in Keeps :
            /\ ds' = IF keep = "result" THEN res.newSource ELSE self
            /\ built' = IF keep = "result"
                        THEN [op |-> op, rowCalls |-> res.log.rowCalls,
                              nRowCalls |-> res.log.nRowCalls,
                              hdrCalls |-> res.log.hdrCalls,
                              warnings |-> res.log.warnings]
                        ELSE built
            /\ call' = [NoCall EXCEPT !.op = op, !.kept = keep]
            /\ lineage' = IF keep = "result"
                          THEN Append(lineage, IdentitiesOf(self)) ELSE lineage
            /\ UNCHANGED <<params, live>>

CloneWithRows ==
    /\ live /\ call.threw = "none" /\ clones < MaxClones
    /\ \E a \in CloneWithRowsArgs :
         LET res == cloneWithRows(ds, a.dataBlob, a.rowIdentities) IN
         Finish("cloneWithRows", cloneWithRowsReceiver(ds), res)

CloneWithRowsAndSections ==
    /\ live /\ call.threw = "none" /\ clones < MaxClones
    /\ \E a \in CloneArgs :
         LET res == cloneWithRowsAndSections(ds, a.dataBlob, a.sectionIdentities,
                                             a.rowIdentities) IN
         Finish("cloneWithRowsAndSections", ds, res)

Next == CloneWithRows \/ CloneWithRowsAndSections

Spec == Init /\ [][Next]_vars

\* Chains of three clones, each with the identities the blob gives.
MaxChain == 3

ChainRowsArgs ==
    [dataBlob : {RowsOf("s1", R, v) : R \in SUBSET RowIDs, v \in Versions},
     rowIdentities : {Null}]

ChainArgs == [dataBlob : Blobs, sectionIdentities : {Null}, rowIdentities : {Null}]

ChainCloneWithRows ==
    /\ live /\ call.threw = "none" /\ clones < MaxChain
    /\ \E a \in ChainRowsArgs :
         LET res == cloneWithRows(ds, a.dataBlob, a.rowIdentities) IN
         Finish("cloneWithRows", cloneWithRowsReceiver(ds), res)

ChainCloneWithRowsAndSections ==
    /\ live /\ call.threw = "none" /\ clones < MaxChain
    /\ \E a \in ChainArgs :
         LET res == cloneWithRowsAndSections(ds, a.dataBlob, a.sectionIdentities,
                                             a.rowIdentities) IN
         Finish("cloneWithRowsAndSections", ds, res)

NextChain == ChainCloneWithRows \/ ChainCloneWithRowsAndSections

SpecChain == Init /\ [][NextChain]_vars

----------------------------------------------------------------------------
(* Vocabulary of the properties.  In a step of Spec, ds is the predecessor *)
(* P the clone was called on and ds' the snapshot N it returned.           *)

\* the step is a clone call that returned, and the caller holds the result
ClonedStep == clones' = clones + 1 /\ call'.threw = "none" /\ call'.kept = "result"

\* ds was returned by a clone call
IsCloned == clones > 0 /\ call.threw = "none" /\ call.kept = "result"

\* a constructed data source that holds no data
IsFresh(self) ==
    self._dataBlob = Null /\ self.sectionIdentities = <<>> /\ self.rowIdentities = <<>>

SectionIndices(self) == 0 .. Len(self.sectionIdentities) - 1
RowIndices(self, s) == 0 .. Len(self.rowIdentities[s + 1]) - 1
SectionIDAt(self, s) == self.sectionIdentities[s + 1]
RowIDAt(self, s, r) == self.rowIdentities[s + 1][r + 1]

\* the row identities the section identity sectionID addresses in snapshot
\* self: those of its last occurrence in self.sectionIdentities
AddressedRows(self, sectionID) ==
    LET occ == {i \in DOMAIN self.sectionIdentities :
                   self.sectionIdentities[i] = sectionID}
        k == CHOOSE i \in occ : \A j \in occ : j <= i
    IN Range(self.rowIdentities[k])

\* the row has a previous side in P: its section identity is one of P's and
\* its row identity one of that section's
HasPrevious(P, sectionID, rowID) ==
    /\ sectionID \in Range(P.sectionIdentities)
    /\ rowID \in AddressedRows(P, sectionID)

RowBit(self, s, r) == rowShouldUpdate(self, s, r).val
SectionBit(self, s) == sectionHeaderShouldUpdate(self, s).val

\* C1: after a clone from P to N, the dirty bit of each row of N is true
\* exactly when its section identity is not one of P's, or its row identity
\* is not one of that section's in P, or rowHasChanged says so of the row's
\* data in the two blobs.
C1_RowDirty ==
    [][ClonedStep =>
        \A s \in SectionIndices(ds') : \A r \in RowIndices(ds', s) :
          LET sectionID == SectionIDAt(ds', s)
              rowID == RowIDAt(ds', s, r)
          IN RowBit(ds', s, r) =
               Some(\/ ~HasPrevious(ds, sectionID, rowID)
                    \/ ApplyDiffer(params.rowHasChanged,
                          defaultGetRowData(ds._dataBlob, sectionID, rowID).val,
                          defaultGetRowData(ds'._dataBlob, sectionID, rowID).val))
    ]_vars

\* C1 witness: a second-generation snapshot, under the comparing rowHasChanged,
\* with a clean row, a row the comparator found changed and a new row.
C1_Witness ==
    /\ IsCloned /\ clones = 2 /\ params.rowHasChanged = "differ"
    /\ \E s \in SectionIndices(ds) : \E r1, r2 \in RowIndices(ds, s) :
         /\ RowBit(ds, s, r1) = Some(FALSE)
         /\ RowBit(ds, s, r2) = Some(TRUE) /\ <<s, r2>> \in built.rowCalls
    /\ \E s \in SectionIndices(ds) : \E r \in RowIndices(ds, s) :
         RowBit(ds, s, r) = Some(TRUE) /\ <<s, r>> \notin built.rowCalls

\* the sectionHeaderHasChanged of the data source: the configured one, or the
\* one cloneWithRows installed
HeaderDiffer == IF params.sectionHeaderHasChanged = "absent"
                THEN "never" ELSE params.sectionHeaderHasChanged

\* C2: after a clone from P to N, the dirty bit of a section whose identity is
\* not one of P's is true and sectionHeaderHasChanged was not called for it;
\* the dirty bit of any other section is what sectionHeaderHasChanged says of
\* the header data in the two blobs.
C2_SectionDirty ==
    [][ClonedStep =>
        \A s \in SectionIndices(ds') :
          LET sectionID == SectionIDAt(ds', s) IN
          IF sectionID \notin Range(ds.sectionIdentities)
          THEN SectionBit(ds', s) = Some(TRUE) /\ s \notin built'.hdrCalls
          ELSE SectionBit(ds', s) =
                 Some(ApplyDiffer(HeaderDiffer,
                        defaultGetSectionHeaderData(ds._dataBlob, sectionID).val,
                        defaultGetSectionHeaderData(ds'._dataBlob, sectionID).val))
    ]_vars

\* C2 witness: a snapshot with a new section and a section whose header the
\* comparator found unchanged.
C2_Witness ==
    /\ IsCloned /\ params.sectionHeaderHasChanged = "differ"
    /\ \E s1, s2 \in SectionIndices(ds) :
         /\ SectionBit(ds, s1) = Some(TRUE) /\ s1 \notin built.hdrCalls
         /\ SectionBit(ds, s2) = Some(FALSE) /\ s2 \in built.hdrCalls

\* C3: in a snapshot cloned from a data source that holds no data, every row
\* bit and every section bit is true.
C3_FirstCloneAllDirty ==
    [][IsFresh(ds) /\ ClonedStep =>
        \A s \in SectionIndices(ds') :
          /\ SectionBit(ds', s) = Some(TRUE)
          /\ \A r \in RowIndices(ds', s) : RowBit(ds', s, r) = Some(TRUE)
    ]_vars

\* C3 witness: the first snapshot, made by cloneWithRows with rows, under
\* comparators that never report a change.
C3_Witness ==
    /\ IsCloned /\ clones = 1 /\ built.op = "cloneWithRows"
    /\ params.rowHasChanged = "never" /\ HeaderDiffer = "never"
    /\ Len(ds.rowIdentities[1]) = MaxRows
    /\ \A r \in RowIndices(ds, 0) : RowBit(ds, 0, r) = Some(TRUE)
    /\ SectionBit(ds, 0) = Some(TRUE)

\* C4: rowHasChanged is called for a row only when the row has a previous
\* side in P, and the diff throws at a row only when the row has one.
C4_ComparatorOnlyWithPrevious ==
    [][/\ ClonedStep =>
           \A c \in built'.rowCalls :
              HasPrevious(ds, SectionIDAt(ds', c[1]), RowIDAt(ds', c[1], c[2]))
       /\ (clones' = clones + 1 /\ call'.threw # "none" /\ call'.at.rIndex >= 0)
             => HasPrevious(ds, call'.at.sectionID, call'.at.rowID)
       /\ (clones' = clones + 1 /\ IsFresh(ds))
             => /\ call'.at.rIndex < 0
                /\ call'.threw = "none" => built'.rowCalls = {}
    ]_vars

\* C4 witness: a snapshot for one of whose rows the comparator was called and
\* for another not.
C4_Witness ==
    /\ IsCloned
    /\ \E s \in SectionIndices(ds) : \E r1, r2 \in RowIndices(ds, s) :
         <<s, r1>> \in built.rowCalls /\ <<s, r2>> \notin built.rowCalls

\* C5: a clone call leaves the data source it is called on as it was.
C5_CloneLeavesReceiver ==
    [][(clones' = clones + 1 /\ call'.kept = "this") => ds' = ds]_vars

RECURSIVE SumOf(_)
SumOf(lengths) == IF lengths = <<>> THEN 0 ELSE Head(lengths) + SumOf(Tail(lengths))

\* C6: getRowCount() is the sum of the entries of getSectionLengths().
C6_RowCountIsSumOfLengths ==
    live => LET lengths == getSectionLengths(ds)
            IN ~lengths.threw /\ getRowCount(ds) = SumOf(lengths.val)

\* the flat offsets queried: those of the rows and some on either side
Offsets(self) == -2 .. getRowCount(self) + 2

Absent == [threw |-> FALSE, val |-> JSNull]

\* C7: for an offset outside [0, getRowCount()), getRowIDForFlatIndex and
\* getSectionIDForFlatIndex return null and do not throw.
C7_OutOfRangeIsNull ==
    live => \A f \in Offsets(ds) :
              (f < 0 \/ f >= getRowCount(ds)) =>
                 /\ getRowIDForFlatIndex(ds, f) = Absent
                 /\ getSectionIDForFlatIndex(ds, f) = Absent

\* the number of rows of the sections before section index s
RECURSIVE RowsBefore(_, _)
RowsBefore(self, s) ==
    IF s = 0 THEN 0 ELSE RowsBefore(self, s - 1) + Len(self.rowIdentities[s])

\* the (s, r) of the rows of the snapshot
Places(self) ==
    UNION {{<<s, r>> : r \in RowIndices(self, s)} : s \in SectionIndices(self)}

\* C8: each offset in [0, getRowCount()) is that of exactly one row (s, r) of
\* the snapshot, and the two flat-index queries return the section identity
\* at s and the row identity at (s, r).
C8_FlatIndexRoundTrip ==
    live => \A f \in 0 .. getRowCount(ds) - 1 :
              LET at == {p \in Places(ds) : f = RowsBefore(ds, p[1]) + p[2]} IN
              /\ Cardinality(at) = 1
              /\ \A p \in at :
                   /\ getSectionIDForFlatIndex(ds, f) =
                         [threw |-> FALSE, val |-> SectionIDAt(ds, p[1])]
                   /\ getRowIDForFlatIndex(ds, f) =
                         [threw |-> FALSE, val |-> RowIDAt(ds, p[1], p[2])]

\* cloning self again with its own blob and identity lists
Reclone(self) ==
    cloneWithRowsAndSections(self, Get(self._dataBlob),
                             Some(self.sectionIdentities), Some(self.rowIdentities))

NeverComparators == params.rowHasChanged = "never" /\ HeaderDiffer = "never"

AllClean(self) ==
    \A s \in SectionIndices(self) :
       /\ SectionBit(self, s) = Some(FALSE)
       /\ \A r \in RowIndices(self, s) : RowBit(self, s, r) = Some(FALSE)

DistinctSections(self) ==
    \A i, j \in DOMAIN self.sectionIdentities :
       i # j => self.sectionIdentities[i] # self.sectionIdentities[j]

SectionsInBlob(self) ==
    Range(self.sectionIdentities) \subseteq DOMAIN Get(self._dataBlob)

\* C9 as stated: cloning any cloned snapshot again with the same blob and
\* identity lists, under comparators that always return false, returns a
\* snapshot whose row and section bits are all false.
C9_RecloneAllClean ==
    (IsCloned /\ NeverComparators) =>
        /\ Reclone(ds).log.threw = "none"
        /\ AllClean(Reclone(ds).newSource)

\* C9 amended: the same of a cloned snapshot whose section identities are
\* pairwise distinct and are all keys of its blob.
C9_RecloneAllCleanDistinct ==
    (IsCloned /\ NeverComparators /\ DistinctSections(ds) /\ SectionsInBlob(ds)) =>
        /\ Reclone(ds).log.threw = "none"
        /\ AllClean(Reclone(ds).newSource)

\* C9 witness: a second-generation snapshot with rows in distinct sections
\* that is what cloning it again returns, every bit false.
C9_Witness ==
    /\ IsCloned /\ clones = 2 /\ NeverComparators
    /\ DistinctSections(ds) /\ SectionsInBlob(ds)
    /\ Len(ds.sectionIdentities) = MaxSections /\ getRowCount(ds) = MaxRows
    /\ AllClean(ds)
    /\ Reclone(ds).log.threw = "none" /\ Reclone(ds).newSource = ds

\* the pairs of an earlier and a later occurrence of one row identity in
\* section index s
Duplicates(self, s) ==
    {p \in RowIndices(self, s) \X RowIndices(self, s) :
        p[1] < p[2] /\ RowIDAt(self, s, p[1]) = RowIDAt(self, s, p[2])}

C11_ConstructionFails ==
    (~params.given \/ ~IsFunction(params.rowHasChanged)) =>
        /\ ~live
        /\ call.op = "constructor" /\ call.threw = "Invariant Violation"
        /\ clones = 0
        /\ ds = <<>>

\* C11 witness: the constructor was given params whose rowHasChanged is not
\* a function, and threw.
C11_Witness ==
    /\ params.given /\ params.rowHasChanged = NotAFunction
    /\ ~live /\ call.threw = "Invariant Violation"

\* C12: on a data source configured without sectionHeaderHasChanged, every
\* call of cloneWithRowsAndSections throws the invariant violation.
C12_SectionsCloneAlwaysFails ==
    [][(/\ params.sectionHeaderHasChanged = "absent"
        /\ clones' = clones + 1
        /\ call'.op = "cloneWithRowsAndSections")
          => call'.threw = "Invariant Violation"]_vars

\* the section and row indices queried: those of the snapshot and some on
\* either side
QuerySections(self) == -1 .. Len(self.sectionIdentities) + 1
QueryRows == -1 .. MaxRows

\* (s, r) is a row of the snapshot
InRange(self, s, r) ==
    /\ s \in SectionIndices(self)
    /\ s + 1 \in DOMAIN self.rowIdentities
    /\ r \in RowIndices(self, s)

\* C13: rowShouldUpdate returns the cached bit for the indices of a row of
\* the snapshot; for any other indices it emits a warning and returns
\* without throwing.
C13_RowShouldUpdateWarns ==
    live => \A s \in QuerySections(ds) : \A r \in QueryRows :
              LET q == rowShouldUpdate(ds, s, r) IN
              /\ ~q.threw
              /\ IF InRange(ds, s, r)
                 THEN q.val = Some(ds._dirtyRows[s + 1][r + 1]) /\ ~q.warned
                 ELSE q.warned

\* C14: getRowData with the indices of a row returns what the row
\* extractor returns for the identities there; with any other indices it
\* still calls the extractor, emits a warning, and does not itself throw.
C14_GetRowDataWarns ==
    live => \A s \in QuerySections(ds) : \A r \in QueryRows :
              LET q == getRowData(ds, s, r) IN
              /\ ~q.threw
              /\ q.called
              /\ IF InRange(ds, s, r)
                 THEN /\ ~q.warned
                      /\ q.got = CallGetRowData(ds, ds._dataBlob,
                                    SectionIDAt(ds, s), RowIDAt(ds, s, r))
                 ELSE q.warned

\* the data source was configured with neither getSectionHeaderData nor
\* sectionHeaderHasChanged
NoHeaderConfig ==
    params.getSectionHeaderData = "absent" /\ params.sectionHeaderHasChanged = "absent"

\* C15: on a snapshot of a data source configured with neither
\* getSectionHeaderData nor sectionHeaderHasChanged, for every section index
\* getSectionHeaderData returns null and sectionHeaderShouldUpdate returns
\* false.
C15_NoHeaderConfigNoHeader ==
    (IsCloned /\ NoHeaderConfig) =>
        \A s \in SectionIndices(ds) :
           /\ getSectionHeaderData(ds, s).isNull
           /\ SectionBit(ds, s) = Some(FALSE)

\* the identity lists of the snapshot hold a section identity twice, or a
\* row identity twice in one section
HasDuplicate(self) ==
    \/ ~DistinctSections(self)
    \/ \E s \in SectionIndices(self) : Duplicates(self, s) # {}

\* C16: a clone that returns a snapshot whose identity lists contain a
\* duplicate emitted a duplicate-identity warning during that call.
C16_DuplicateWarnsInSameClone ==
    [][(ClonedStep /\ HasDuplicate(ds')) => built'.warnings # {}]_vars

\* the positions (1-based) of sectionID in the section identities of self
Occurrences(self, sectionID) ==
    {i \in DOMAIN self.sectionIdentities : self.sectionIdentities[i] = sectionID}

\* the last of them
LastOccurrence(self, sectionID) ==
    CHOOSE i \in Occurrences(self, sectionID) :
       \A j \in Occurrences(self, sectionID) : j <= i

\* C17: when P lists a section identity more than once, a row of that
\* section in N is compared if its identity is among the row identities of
\* the last occurrence in P, and otherwise is dirty without rowHasChanged
\* being called for it.
C17_LaterDuplicateWins ==
    [][ClonedStep =>
        \A s \in SectionIndices(ds') : \A r \in RowIndices(ds', s) :
          LET sectionID == SectionIDAt(ds', s)
              rowID == RowIDAt(ds', s, r)
          IN Cardinality(Occurrences(ds, sectionID)) > 1 =>
               IF rowID \in Range(ds.rowIdentities[LastOccurrence(ds, sectionID)])
               THEN <<s, r>> \in built'.rowCalls
               ELSE RowBit(ds', s, r) = Some(TRUE) /\ <<s, r>> \notin built'.rowCalls
    ]_vars

\* C17 witness: a snapshot that lists a section identity twice, with a row
\* identity under the earlier occurrence only, cloned from a predecessor
\* that did so too (the diff warned of it) and equal to what cloning it
\* again returns: the row of the earlier occurrence is dirty without a
\* comparison, the row of the last occurrence was compared.
C17_Witness ==
    /\ IsCloned /\ WarnDupSection \in built.warnings
    /\ params.rowHasChanged = "never"
    /\ Reclone(ds).log.threw = "none" /\ Reclone(ds).newSource = ds
    /\ \E s1, s2 \in SectionIndices(ds) : \E r1 \in RowIndices(ds, s1) :
         /\ s1 < s2 /\ SectionIDAt(ds, s1) = SectionIDAt(ds, s2)
         /\ s2 + 1 = LastOccurrence(ds, SectionIDAt(ds, s1))
         /\ RowIDAt(ds, s1, r1) \notin Range(ds.rowIdentities[s2 + 1])
         /\ <<s1, r1>> \notin built.rowCalls /\ RowBit(ds, s1, r1) = Some(TRUE)
         /\ \E r2 \in RowIndices(ds, s2) :
               <<s2, r2>> \in built.rowCalls /\ RowBit(ds, s2, r2) = Some(FALSE)

\* the rows of N that have a previous side in P
RowsWithPrevious(P, N) ==
    {p \in Places(N) : HasPrevious(P, SectionIDAt(N, p[1]), RowIDAt(N, p[1], p[2]))}

\* N has the identity lists of P
SameIdentities(P, N) ==
    N.sectionIdentities = P.sectionIdentities /\ N.rowIdentities = P.rowIdentities

\* the number of rows listed under the section identities of the snapshot
RowsListed(self) == Cardinality(Places(self))

\* C18 as stated: in a clone rowHasChanged is called at most once per row of
\* the new snapshot, for exactly the rows that have a previous side; the
\* number of calls is at most the number of rows of the new snapshot and
\* equals it when the identity lists are unchanged.
C18_CallsEqualRowCount ==
    [][ClonedStep =>
        /\ built'.nRowCalls = Cardinality(built'.rowCalls)
        /\ built'.rowCalls = RowsWithPrevious(ds, ds')
        /\ built'.nRowCalls <= RowsListed(ds')
        /\ SameIdentities(ds, ds') => built'.nRowCalls = RowsListed(ds')
    ]_vars

\* C18 amended: the same, the number of calls being equal to the number of
\* rows when the identity lists are unchanged and the section identities
\* are pairwise distinct; it is at most getRowCount() as well.
C18_CallsOncePerPreviousRow ==
    [][ClonedStep =>
        /\ built'.nRowCalls = Cardinality(built'.rowCalls)
        /\ built'.rowCalls = RowsWithPrevious(ds, ds')
        /\ built'.nRowCalls <= RowsListed(ds')
        /\ built'.nRowCalls <= getRowCount(ds')
        /\ (SameIdentities(ds, ds') /\ DistinctSections(ds'))
              => built'.nRowCalls = RowsListed(ds')
    ]_vars

\* C18 witness: a second-generation snapshot with distinct sections for each
\* of whose rows rowHasChanged was called once, as it is when the snapshot
\* is cloned again with its own identity lists.
C18_Witness ==
    /\ IsCloned /\ clones = 2 /\ DistinctSections(ds)
    /\ getRowCount(ds) = MaxRows /\ built.nRowCalls = MaxRows
    /\ Reclone(ds).log.threw = "none" /\ Reclone(ds).log.nRowCalls = MaxRows

\* C19: in a snapshot returned by a clone the section bitmap has one
\* boolean per section identity, and for each section index the row bitmap
\* of that section has one boolean per row identity of the section.
C19_BitmapsMirrorIdentities ==
    IsCloned =>
        /\ Len(ds._dirtySections) = Len(ds.sectionIdentities)
        /\ Len(ds._dirtyRows) = Len(ds.sectionIdentities)
        /\ \A s \in SectionIndices(ds) :
             /\ ds._dirtySections[s + 1] \in BOOLEAN
             /\ Len(ds._dirtyRows[s + 1]) = Len(ds.rowIdentities[s + 1])
             /\ \A r \in RowIndices(ds, s) : ds._dirtyRows[s + 1][r + 1] \in BOOLEAN

\* C19 witness: a second-generation snapshot with sections of different
\* lengths, one of them with a row identity twice.
C19_Witness ==
    /\ IsCloned /\ clones = 2
    /\ Len(ds.sectionIdentities) = MaxSections
    /\ \E s1, s2 \in SectionIndices(ds) :
         /\ Len(ds.rowIdentities[s1 + 1]) = 0
         /\ Len(ds._dirtyRows[s2 + 1]) = MaxRows
         /\ Duplicates(ds, s2) # {}

\* C20: a snapshot has as many row-identity lists as section identities.
C20_EquallyManyLists ==
    live => Len(ds.rowIdentities) = Len(ds.sectionIdentities)

\* the snapshot B as other histories would have left it: with other bits in
\* its bitmaps
OtherHistories(B) ==
    {[B EXCEPT !._dirtyRows = [i \in DOMAIN @ |-> [j \in DOMAIN @[i] |-> b]],
               !._dirtySections = [i \in DOMAIN @ |-> b]] : b \in BOOLEAN}

\* cloning P with the blob and the identity lists of N
CloneLike(P, N) ==
    cloneWithRowsAndSections(P, Get(N._dataBlob),
                             Some(N.sectionIdentities), Some(N.rowIdentities))

\* the receiver of the clone call of the step, as the call's first
\* statements leave it
Receiver ==
    IF call'.op = "cloneWithRows" THEN cloneWithRowsReceiver(ds) ELSE ds

\* the identity lists of the data source that ds was cloned from
Grandparent == lineage[Len(lineage)]

\* C21: in a chain A -> B -> C the snapshot C, and the comparator calls made
\* for it, are those that cloning B with any other bitmaps gives; and a
\* section or row identity that A has, B lacks and C has again is dirty in C
\* without its comparator being called.
C21_OnlyPredecessorMatters ==
    [][ClonedStep =>
        /\ \A H \in OtherHistories(Receiver) :
             LET other == CloneLike(H, ds') IN
             /\ other.log.threw = "none"
             /\ other.newSource = ds'
             /\ other.log.rowCalls = built'.rowCalls
             /\ other.log.hdrCalls = built'.hdrCalls
        /\ Len(lineage) > 0 =>
             \A s \in SectionIndices(ds') :
               LET sectionID == SectionIDAt(ds', s) IN
               /\ (/\ sectionID \in Range(Grandparent.sectionIdentities)
                   /\ sectionID \notin Range(ds.sectionIdentities))
                     => SectionBit(ds', s) = Some(TRUE) /\ s \notin built'.hdrCalls
               /\ \A r \in RowIndices(ds', s) :
                    (/\ HasPrevious(Grandparent, sectionID, RowIDAt(ds', s, r))
                     /\ ~HasPrevious(ds, sectionID, RowIDAt(ds', s, r)))
                       => /\ RowBit(ds', s, r) = Some(TRUE)
                          /\ <<s, r>> \notin built'.rowCalls
    ]_vars

\* C21 witness: the third snapshot C of a chain, under comparators that
\* never report a change, with a row that A had and B lacked, dirty and not
\* compared, and a row that B had, compared and clean.
C21_Witness ==
    /\ IsCloned /\ Len(lineage) = MaxChain /\ NeverComparators
    /\ \E s \in SectionIndices(ds) : \E r1, r2 \in RowIndices(ds, s) :
         /\ HasPrevious(lineage[2], SectionIDAt(ds, s), RowIDAt(ds, s, r1))
         /\ ~HasPrevious(lineage[3], SectionIDAt(ds, s), RowIDAt(ds, s, r1))
         /\ RowBit(ds, s, r1) = Some(TRUE) /\ <<s, r1>> \notin built.rowCalls
         /\ HasPrevious(lineage[3], SectionIDAt(ds, s), RowIDAt(ds, s, r2))
         /\ RowBit(ds, s, r2) = Some(FALSE) /\ <<s, r2>> \in built.rowCalls

----------------------------------------------------------------------------
(***************************************************************************)
(* RCTView (ReactKit/Views/RCTView.m): subview unmounting.  With           *)
(* removeClippedSubviews on, the view keeps the views React gave it in     *)
(* _reactSubviews and mounts only those that its clip rect shows.          *)
(*                                                                         *)
(* The array self.subviews is a sequence (index 0 of UIKit is position 1). *)
(* A child view's superview is this view when the child is in subviews and *)
(* nil otherwise: the child views here are the views the UI manager        *)
(* creates for this view, which have no other parent.  What the messages   *)
(* forwarded to a child do to the child's own subviews is not modelled.    *)
(***************************************************************************)

\* most child views the UI manager creates for the view
MaxViews == 4

Views == 1..MaxViews

\* seq without view
Without(seq, view) == SelectSeq(seq, LAMBDA x : x # view)

\* view.superview == self / view.superview != nil
IsMounted(subs, view) == view \in Range(subs)

\* -[UIView insertSubview:atIndex:]: view leaves the place it had and goes to
\* index; an index beyond the end puts it last
insertSubview(subs, view, index) ==
    LET rest == Without(subs, view)
        k == IF index > Len(rest) THEN Len(rest) ELSE index
    IN SubSeq(rest, 1, k) \o <<view>> \o SubSeq(rest, k + 1, Len(rest))

\* -[UIView addSubview:]
addSubview(subs, view) == Append(Without(subs, view), view)

\* -[UIView removeFromSuperview]
removeFromSuperview(subs, view) == Without(subs, view)

\* -[NSMutableArray insertObject:atIndex:]
insertObject(array, object, index) ==
    SubSeq(array, 1, index) \o <<object>> \o SubSeq(array, index + 1, Len(array))

\* -[NSMutableArray removeObject:]: every occurrence goes
removeObject(array, object) == Without(array, object)

\* the loop of react_remountAllSubviews from position i of _reactSubviews
\* (index i - 1)
RECURSIVE remountAllFrom(_, _, _)
remountAllFrom_Adding(rs, subs, i) ==
    IF i > Len(rs) THEN subs
    ELSE remountAllFrom(rs,
                        IF ~IsMounted(subs, rs[i]) THEN addSubview(subs, rs[i])
                        ELSE subs,
                        i + 1)

remountAllFrom(rs, subs, i) ==
    IF i > Len(rs) THEN subs
    ELSE remountAllFrom(rs,
                        IF ~IsMounted(subs, rs[i])
                        THEN IF i - 1 < Len(subs)
                             THEN insertSubview(subs, rs[i], i - 1)
                             ELSE addSubview(subs, rs[i])
                        ELSE subs,
                        i + 1)

\* -[RCTView react_remountAllSubviews]: the subviews afterwards.  With a nil
\* _reactSubviews the message only goes on to the subviews.
react_remountAllSubviews(reactSubs, subs) ==
    IF reactSubs # Null THEN remountAllFrom(Get(reactSubs), subs, 1) ELSE subs

\* the loop of remountSubview: from position i of _reactSubviews, index counts
\* the mounted views passed
RECURSIVE remountSubviewFrom(_, _, _, _, _)
remountSubviewFrom_CountsAll(rs, subs, view, i, index) ==
    IF i > Len(rs) THEN subs
    ELSE IF rs[i] = view THEN insertSubview(subs, view, index)
    ELSE remountSubviewFrom(rs, subs, view, i + 1, index + 1)

remountSubviewFrom(rs, subs, view, i, index) ==
    IF i > Len(rs) THEN subs
    ELSE IF rs[i] = view THEN insertSubview(subs, view, index)
    ELSE remountSubviewFrom(rs, subs, view, i + 1,
                            IF IsMounted(subs, rs[i]) THEN index + 1 ELSE index)

\* -[RCTView remountSubview:]
remountSubview(rs, subs, view) == remountSubviewFrom(rs, subs, view, 1, 0)

\* -[RCTView mountOrUnmountSubview:withClipRect:relativeToView:]: clips is
\* view.clipsToBounds and intersects is CGRectIntersectsRect(clipRect, view.frame)
mountOrUnmountSubview(rs, subs, view, clips, intersects) ==
    IF clips
    THEN IF intersects
         THEN IF ~IsMounted(subs, view) THEN remountSubview(rs, subs, view) ELSE subs
         ELSE IF IsMounted(subs, view) THEN removeFromSuperview(subs, view) ELSE subs
    ELSE IF ~IsMounted(subs, view) THEN remountSubview(rs, subs, view) ELSE subs

\* the loop of react_updateClippedSubviewsWithClipRect from position i
RECURSIVE mountOrUnmountFrom(_, _, _, _, _)
mountOrUnmountFrom(rs, subs, clips, intersects, i) ==
    IF i > Len(rs) THEN subs
    ELSE mountOrUnmountFrom(rs,
                            mountOrUnmountSubview(rs, subs, rs[i], clips[rs[i]],
                                                  intersects[rs[i]]),
                            clips, intersects, i + 1)

\* -[RCTView react_updateClippedSubviewsWithClipRect:relativeToView:]: laidOut
\* is that self.bounds.size is not zero
react_updateClippedSubviews(reactSubs, subs, clips, intersects, laidOut) ==
    IF reactSubs = Null THEN subs
    ELSE IF Len(Get(reactSubs)) = 0 THEN subs
    ELSE IF ~laidOut THEN subs
    ELSE mountOrUnmountFrom(Get(reactSubs), subs, clips, intersects, 1)

\* -[RCTView updateClippedSubviews]: found is that react_findClipView returns a
\* view (a clipping ancestor or the window)
updateClippedSubviews(reactSubs, subs, clips, intersects, laidOut, found) ==
    IF found THEN react_updateClippedSubviews(reactSubs, subs, clips, intersects, laidOut)
    ELSE subs

\* -[RCTView layoutSubviews]
layoutSubviews(reactSubs, subs, clips, intersects, laidOut, found) ==
    IF reactSubs # Null
    THEN updateClippedSubviews(reactSubs, subs, clips, intersects, laidOut, found)
    ELSE subs

\* -[RCTView setRemoveClippedSubviews:]
setRemoveClippedSubviews(reactSubs, subs, removeClipped) ==
    IF removeClipped /\ reactSubs = Null
    THEN [_reactSubviews |-> Some(subs), subviews |-> subs]
    ELSE IF ~removeClipped /\ reactSubs # Null
    THEN [_reactSubviews |-> Null, subviews |-> react_remountAllSubviews(reactSubs, subs)]
    ELSE [_reactSubviews |-> reactSubs, subviews |-> subs]

\* -[RCTView removeClippedSubviews]
removeClippedSubviews(reactSubs) == reactSubs # Null

\* -[RCTView insertReactSubview:atIndex:]
insertReactSubview(reactSubs, subs, view, atIndex, clips, intersects, found) ==
    IF reactSubs = Null
    THEN [_reactSubviews |-> reactSubs, subviews |-> insertSubview(subs, view, atIndex)]
    ELSE LET rs == insertObject(Get(reactSubs), view, atIndex) IN
         [_reactSubviews |-> Some(rs),
          subviews |-> IF found
                       THEN mountOrUnmountSubview(rs, subs, view, clips, intersects)
                       ELSE remountSubview(rs, subs, view)]

\* -[RCTView removeReactSubview:]: a message to a nil array does nothing
removeReactSubview(reactSubs, subs, subview) ==
    [_reactSubviews |-> IF reactSubs = Null THEN reactSubs
                        ELSE Some(removeObject(Get(reactSubs), subview)),
     subviews |-> removeFromSuperview(subs, subview)]

\* -[RCTView reactSubviews]
reactSubviews(reactSubs, subs) == IF reactSubs # Null THEN Get(reactSubs) ELSE subs

(* The view as a state machine: the messages the UI manager and UIKit send. *)

\* the message op left the view as `after`
Sent(op, view, flag, after) ==
    /\ _reactSubviews' = after._reactSubviews
    /\ subviews' = after.subviews
    /\ sent' = [op |-> op, view |-> view, flag |-> flag,
                remounted |-> Range(after.subviews) \ Range(subviews)]
    /\ UNCHANGED <<dataSourceVars, commandVars>>

\* the UI manager inserts a view it holds that is in no view
InsertReactSubview ==
    \E view \in Views \ Range(reactSubviews(_reactSubviews, subviews)) :
    \E atIndex \in 0..Len(reactSubviews(_reactSubviews, subviews)) :
    \E clips, intersects, found \in BOOLEAN :
        Sent("insertReactSubview", view, clips /\ ~intersects,
             insertReactSubview(_reactSubviews, subviews, view, atIndex, clips,
                                intersects, found))

RemoveReactSubview ==
    \E view \in Views :
        Sent("removeReactSubview", view, FALSE,
             removeReactSubview(_reactSubviews, subviews, view))

\* UIKit lays the view out, with the child views' frames and the clip rect
\* wherever they are by then
LayoutSubviews ==
    \E clips, intersects \in [Views -> BOOLEAN] :
    \E laidOut, found \in BOOLEAN :
        Sent("layoutSubviews", 0, laidOut /\ found,
             [_reactSubviews |-> _reactSubviews,
              subviews |-> layoutSubviews(_reactSubviews, subviews, clips, intersects,
                                          laidOut, found)])

SetRemoveClippedSubviews ==
    \E removeClipped \in BOOLEAN :
        Sent("setRemoveClippedSubviews", 0, removeClipped,
             setRemoveClippedSubviews(_reactSubviews, subviews, removeClipped))

InitView == InitDataSource({NoParams}) /\ InitRCTView /\ NoProcess

NextView ==
    \/ InsertReactSubview
    \/ RemoveReactSubview
    \/ LayoutSubviews
    \/ SetRemoveClippedSubviews

SpecView == InitView /\ [][NextView]_vars

\* the place of view in seq
PlaceIn(seq, view) == CHOOSE i \in DOMAIN seq : seq[i] = view

\* seq lists views of `of` only, each once, in the order they have in `of`
InOrderOf(seq, of) ==
    /\ Range(seq) \subseteq Range(of)
    /\ \A i, j \in DOMAIN seq :
         i < j => PlaceIn(of, seq[i]) < PlaceIn(of, seq[j])

\* C22: while removeClippedSubviews is on, whatever inserts, removals and
\* mount/unmount passes came before, the mounted subviews are members of
\* _reactSubviews and stand in the relative order they have there.
C22_MountedInReactOrder ==
    removeClippedSubviews(_reactSubviews) => InOrderOf(subviews, Get(_reactSubviews))

\* C22 happens: an insert has just mounted a view between two mounted views,
\* with an unmounted view listed before it.
C22_Witness ==
    /\ removeClippedSubviews(_reactSubviews)
    /\ sent.op = "insertReactSubview"
    /\ sent.remounted = {sent.view}
    /\ LET rs == Get(_reactSubviews)
           at == PlaceIn(rs, sent.view)
       IN /\ \E i \in 1..(at - 1) : ~IsMounted(subviews, rs[i])
          /\ \E i \in 1..(at - 1) : IsMounted(subviews, rs[i])
          /\ \E i \in (at + 1)..Len(rs) : IsMounted(subviews, rs[i])

\* setRemoveClippedSubviews: was just sent with this argument
JustSet(removeClipped) ==
    sent'.op = "setRemoveClippedSubviews" /\ sent'.flag = removeClipped

\* C23: setRemoveClippedSubviews:NO on a view with clipping on leaves every
\* view of the former _reactSubviews mounted, in that order; afterwards
\* removeClippedSubviews is NO and reactSubviews equals subviews.  YES with
\* clipping already on, and NO with clipping off, change nothing.
C23_DisablingRemountsAll ==
    [][/\ JustSet(FALSE) /\ removeClippedSubviews(_reactSubviews) =>
          /\ subviews' = Get(_reactSubviews)
          /\ ~removeClippedSubviews(_reactSubviews')
          /\ reactSubviews(_reactSubviews', subviews') = subviews'
       /\ JustSet(removeClippedSubviews(_reactSubviews)) =>
          UNCHANGED <<_reactSubviews, subviews>>]_vars

\* C23 happens: clipping has just been turned off and that mounted two views
\* that are not neighbours.
C23_Witness ==
    /\ sent.op = "setRemoveClippedSubviews" /\ ~sent.flag
    /\ ~removeClippedSubviews(_reactSubviews)
    /\ \E i, j \in DOMAIN subviews :
         /\ i + 1 < j
         /\ subviews[i] \in sent.remounted
         /\ subviews[j] \in sent.remounted
         /\ subviews[i + 1] \notin sent.remounted

----------------------------------------------------------------------------
(***************************************************************************)
(* The scaffolding command (the `react-native` script): `init <name>`      *)
(* makes the project directory, writes package.json, runs npm and hands    *)
(* over to the cli module that npm installed.                              *)
(*                                                                         *)
(* A path is the sequence of its segments, <<>> being "/"; a path given on *)
(* the command line is relative or absolute.  process.pc is where the      *)
(* process is: "start", "installing" (the script returned and npm runs),   *)
(* "cli.run" and "cli.init" (the cli module has the control), "exited"     *)
(* (process.exit) and "threw" (an uncaught exception ended the process).   *)
(* process.root and process.projectName are the variables of init that the *)
(* callback given to run closes over.                                      *)
(***************************************************************************)

\* most segments of the name given to `init`
MaxPath == 2
\* largest exit code npm ends with
MaxCode == 2

Segments == {"App", "lib", ".."}

\* the arguments that stand for a path; [abs |-> FALSE, segs |-> <<>>] is ""
Names == [abs : BOOLEAN, segs : SeqsUpTo(Segments, MaxPath)]

Commands == {"init", "start"}

\* process.argv.slice(2)
Argvs ==
    {<<>>} \cup {<<c>> : c \in Commands} \cup {<<c, n>> : c \in Commands, n \in Names}

Cwds == {<<"home">>, <<"home", "lib">>}

\* the code the 'close' event carries: the exit code, or null after a signal
ExitCodes == {Null} \cup {Some(c) : c \in 0..MaxCode}

\* a JavaScript string used as a condition
Truthy(name) == name.abs \/ name.segs # <<>>

\* the segments with every ".." and the segment before it taken out
RECURSIVE normalize(_, _)
normalize(done, segs) ==
    IF segs = <<>> THEN done
    ELSE IF Head(segs) = ".."
    THEN normalize(IF done = <<>> THEN done ELSE SubSeq(done, 1, Len(done) - 1),
                   Tail(segs))
    ELSE normalize(Append(done, Head(segs)), Tail(segs))

\* path.resolve(name), from the working directory cwd
resolve(cwd, name) ==
    normalize(<<>>, IF name.abs THEN name.segs ELSE cwd \o name.segs)

\* path.basename
basename(path) == IF path = <<>> THEN "" ELSE path[Len(path)]

\* the directory a path is in
dirname(path) == IF path = <<>> THEN path ELSE SubSeq(path, 1, Len(path) - 1)

\* a directory and the directories above it
Ancestors(path) == {SubSeq(path, 1, k) : k \in 0..Len(path)}

CLI_MODULE_PATH(cwd) == cwd \o <<"node_modules", "react-native", "cli">>

\* a call the script makes or an event it receives; code is the code of a
\* 'close' event, at and name the path and the string the call is about
Ev(what) == [call |-> what, code |-> {}, at |-> <<>>, name |-> ""]

\* process.exit(1)
exit1(p) == [p EXCEPT !.pc = "exited", !.exit = Some(1)]

\* an exception nobody catches
throw(p) == [p EXCEPT !.pc = "threw"]

\* the command of line 79, as its words and the white space between them
Command == <<"npm", " ", "install", " ", "--save", " ", "react-native">>

\* command.split(/\s+/)
split(command) == SelectSeq(command, LAMBDA w : w # " ")

\* run(command, cb) up to its return: the child is spawned and the handler
\* of its 'close' event is registered
run(command) ==
    LET parts == split(command) IN
    <<[Ev("spawn") EXCEPT !.name = parts[1], !.at = SubSeq(parts, 2, Len(parts))]>>

\* init(name) up to its return
init(name, p, d) ==
    LET root == resolve(p.cwd, name)
        projectName == basename(root)
        log == <<[Ev("console.log") EXCEPT !.at = root]>>
        mkdir == IF root \in d.dirs THEN <<>>
                 ELSE <<[Ev("mkdirSync") EXCEPT !.at = root]>>
    IN IF root \notin d.dirs /\ dirname(root) \notin d.dirs
       THEN [process |-> throw(p), disk |-> d, events |-> log \o mkdir]
       ELSE [process |-> [p EXCEPT !.cwd = root, !.pc = "installing",
                                   !.root = root, !.projectName = projectName],
             disk |-> [d EXCEPT !.dirs = @ \cup {root},
                                !.packageJson =
                                    Some([at |-> root \o <<"package.json">>,
                                          name |-> projectName])],
             events |-> log \o mkdir
                        \o <<[Ev("writeFileSync") EXCEPT
                                  !.at = root \o <<"package.json">>,
                                  !.name = projectName],
                             [Ev("chdir") EXCEPT !.at = root]>>
                        \o run(Command)]

\* the script from its first line to the end of its synchronous run
main(p, d) ==
    IF CLI_MODULE_PATH(p.cwd) \in d.installed
    THEN [process |-> [p EXCEPT !.pc = "cli.run"], disk |-> d,
          events |-> <<Ev("cli.run")>>]
    ELSE LET args == p.argv
             fail == [process |-> exit1(p), disk |-> d,
                      events |-> <<Ev("console.error")>>]
         IN IF Len(args) = 0 THEN fail
            ELSE IF args[1] = "init"
            THEN IF Len(args) > 1 /\ Truthy(args[2]) THEN init(args[2], p, d)
                 ELSE fail
            ELSE fail

\* the callback init gives to run (lines 79-87): e is that an error is passed
cb(e, p, d) ==
    IF e
    THEN [process |-> exit1(p), events |-> <<Ev("console.error")>>]
    ELSE IF CLI_MODULE_PATH(p.cwd) \in d.installed
    THEN [process |-> [p EXCEPT !.pc = "cli.init"],
          events |-> <<[Ev("cli.init") EXCEPT !.at = p.root, !.name = p.projectName]>>]
    ELSE [process |-> throw(p), events |-> <<>>]

\* the handler of the child's 'close' event (lines 95-101)
onClose_IgnoresCode(code, p, d) == cb(FALSE, p, d)

onClose(code, p, d) ==
    IF code # Some(0) THEN cb(TRUE, p, d) ELSE cb(FALSE, p, d)

(* The command as a state machine. *)

InitCommand ==
    /\ \E argv \in Argvs, cwd \in Cwds :
         process = [argv |-> argv, cwd |-> cwd, pc |-> "start", exit |-> {},
                    root |-> <<>>, projectName |-> ""]
    /\ \E made \in SUBSET {process.cwd \o <<"App">>, process.cwd \o <<"lib">>},
          local \in SUBSET {CLI_MODULE_PATH(process.cwd)} :
         disk = [dirs |-> Ancestors(process.cwd) \cup made, installed |-> local,
                 packageJson |-> {}]
    /\ events = <<>>

\* node runs the script
Main ==
    /\ process.pc = "start"
    /\ LET ran == main(process, disk) IN
         /\ process' = ran.process
         /\ disk' = ran.disk
         /\ events' = events \o ran.events
    /\ UNCHANGED <<dataSourceVars, viewVars>>

\* npm ends with code, having installed the cli module or not
Close ==
    /\ process.pc = "installing"
    /\ \E code \in ExitCodes, installed \in BOOLEAN :
         LET after == [disk EXCEPT !.installed =
                           IF installed THEN @ \cup {CLI_MODULE_PATH(process.cwd)}
                           ELSE @]
             ran == onClose(code, process, after)
         IN /\ process' = ran.process
            /\ disk' = after
            /\ events' = events \o <<[Ev("close") EXCEPT !.code = code]>>
                                \o ran.events
    /\ UNCHANGED <<dataSourceVars, viewVars>>

InitCli == InitDataSource({NoParams}) /\ InitRCTView /\ InitCommand

NextCli == Main \/ Close

SpecCli == InitCli /\ [][NextCli]_vars

\* the places in events of the calls named c
Calls(c) == {i \in DOMAIN events : events[i].call = c}

\* C24: on the `init <name>` path, package.json is written before npm is
\* spawned; cli.init(root, projectName) is called only after the child has
\* closed with code 0; and once the child has closed with another code the
\* process has exited with status 1 and cli.init has not been called.
C24_InstallThenInit ==
    /\ \A i \in Calls("spawn") :
         /\ events[i].name = "npm"
         /\ events[i].at = <<"install", "--save", "react-native">>
         /\ \E j \in Calls("writeFileSync") :
              j < i /\ events[j].at = process.root \o <<"package.json">>
    /\ \A i \in Calls("cli.init") :
         /\ events[i].at = process.root
         /\ events[i].name = process.projectName
         /\ \E j \in Calls("close"), k \in Calls("spawn") :
              k < j /\ j < i /\ events[j].code = Some(0)
    /\ \A j \in Calls("close") :
         events[j].code # Some(0) =>
             /\ process.pc = "exited"
             /\ process.exit = Some(1)
             /\ Calls("cli.init") = {}

\* C24 happens: the script made the directory, npm closed with 0 and cli.init
\* was called for a project named after the last segment of the resolved path.
C24_Witness ==
    /\ process.pc = "cli.init"
    /\ Calls("mkdirSync") # {}
    /\ Calls("cli.init") # {}
    /\ process.projectName = "App"
    /\ Len(process.argv) > 1 /\ ".." \in Range(process.argv[2].segs)

====
